---- MODULE Spec2Model ----
(***************************************************************************)
(* User management service: POST /users through the request pipeline       *)
(* (LoggingMiddleware -> ThrottlerGuard -> ValidationPipe ->               *)
(* UsersController -> UsersService -> HttpExceptionFilter) over the        *)
(* `users` table.  Both revisions of UsersService are modelled: the        *)
(* repository-backed one (findOneBy, then save, each an await) and the     *)
(* in-memory one (a Map and a nextId counter, no await inside).            *)
(*                                                                         *)
(* SpecSvc serves the admitted requests (POST /users with a valid DTO,     *)
(* GET /users) concurrently; SpecList runs getUserList over a mocked       *)
(* repository answer; SpecFilter runs HttpExceptionFilter.catch on thrown  *)
(* values of every kind; SpecVal runs ValidationPipe on its own.           *)
(*                                                                         *)
(* Strings are sequences of one-character strings, so that validation,     *)
(* comparison and message templates are computed on their characters.      *)
(***************************************************************************)
EXTENDS Integers, Sequences, FiniteSets, TLC

\* ---------------------------------------------------------------- bounds
MaxReq == 2        \* requests issued in one behaviour
MaxClock == 1      \* the server clock takes the values 0..MaxClock
MaxLen == 6        \* longest e-mail string given to the validator
MaxNameLen == 2    \* longest name string given to the validator
MaxCalls == 3      \* admitted requests served in one behaviour
MaxRows == 2       \* most rows in an answer of repository.find
MaxHits == 6       \* requests that reach the front of the pipeline

\* ------------------------------------------------------ program constants
MinNameLength == 2
PostLimit == 5
GetLimit == 20
DefaultLimit == 10
Ttl == 60000
CREATED == 201
BAD_REQUEST == 400
CONFLICT == 409
TOO_MANY_REQUESTS == 429
INTERNAL_SERVER_ERROR == 500

\* ----------------------------------------------------------- JSON values
Undef == [t |-> "undef", v |-> <<>>, n |-> 0]
Null == [t |-> "null", v |-> <<>>, n |-> 0]
Str(s) == [t |-> "str", v |-> s, n |-> 0]
Num(k) == [t |-> "num", v |-> <<>>, n |-> k]

Letters == {"a", "A"}
\* the characters of the e-mail strings given to the validator
EmailAlphabet == {"a", "@", "."}

\* every string over S of length at most k
SeqsUpTo(S, k) == UNION {[1..n -> S] : n \in 0..k}

\* --------------------------------------------- class-validator decorators
IsNotEmpty(x) == ~(x.t = "undef" \/ x.t = "null" \/ (x.t = "str" /\ x.v = <<>>))

IsString(x) == x.t = "str"

MinLength(x, k) == x.t = "str" /\ Len(x.v) >= k

\* every "."-separated part of s is a non-empty run of letters
DotAtom(s) ==
    /\ s # <<>>
    /\ \A i \in 1..Len(s) : s[i] \in Letters \cup {"."}
    /\ s[1] # "."
    /\ s[Len(s)] # "."
    /\ \A i \in 1..(Len(s) - 1) : ~(s[i] = "." /\ s[i + 1] = ".")

\* local-part "@" domain, split at the last "@"; the domain has at least
\* two labels and a top-level label of two or more letters
IsEmailStr(s) ==
    LET ats == {i \in 1..Len(s) : s[i] = "@"}
    IN  /\ ats # {}
        /\ LET at == CHOOSE i \in ats : \A j \in ats : j <= i
               user == SubSeq(s, 1, at - 1)
               domain == SubSeq(s, at + 1, Len(s))
               dots == {i \in 1..Len(domain) : domain[i] = "."}
           IN  /\ DotAtom(user)
               /\ DotAtom(domain)
               /\ dots # {}
               /\ LET last == CHOOSE i \in dots : \A j \in dots : j <= i
                  IN  Len(domain) - last >= 2

IsEmail(x) == x.t = "str" /\ IsEmailStr(x.v)

MsgNameRequired == <<"Name is required">>
MsgNameString == <<"Name must be a string">>
MsgNameMinLength == <<"Name must be at least 2 characters long">>
MsgEmailRequired == <<"Email is required">>
MsgEmailValid == <<"Email must be a valid email address">>
MsgShouldNotExist(f) == <<"property ", f, " should not exist">>

\* the properties a request body may carry besides name and email
ExtraFields == <<"id", "createdAt", "foo">>


\* ------------------------------------------------ ValidationPipe (main.ts)
\* a pipe without whitelist / forbidNonWhitelisted
WhitelistErrorsOff(body) == <<>>

\* a pipe that lets the entity columns id and createdAt through
WhitelistErrorsEntityColumns(body) ==
    IF body.foo.t # "undef" THEN <<MsgShouldNotExist("foo")>> ELSE <<>>

\* forbidNonWhitelisted: one error per property without a decorator
WhitelistErrors(body) ==
    LET e(f) == IF body[f].t # "undef" THEN <<MsgShouldNotExist(f)>> ELSE <<>>
    IN  e(ExtraFields[1]) \o e(ExtraFields[2]) \o e(ExtraFields[3])

\* name without its @MinLength decorator
NameErrorsNoMinLength(x) ==
    (IF IsString(x) THEN <<>> ELSE <<MsgNameString>>)
    \o (IF IsNotEmpty(x) THEN <<>> ELSE <<MsgNameRequired>>)

\* every decorator of a property is evaluated; the constraints are reported
\* in the order the decorators were registered (bottom-up)
NameErrors(x) ==
    (IF MinLength(x, MinNameLength) THEN <<>> ELSE <<MsgNameMinLength>>)
    \o (IF IsString(x) THEN <<>> ELSE <<MsgNameString>>)
    \o (IF IsNotEmpty(x) THEN <<>> ELSE <<MsgNameRequired>>)

\* email validation that stops at the first failing decorator
EmailErrorsFirstOnly(x) ==
    IF ~IsEmail(x) THEN <<MsgEmailValid>>
    ELSE IF ~IsNotEmpty(x) THEN <<MsgEmailRequired>> ELSE <<>>

EmailErrors(x) ==
    (IF IsEmail(x) THEN <<>> ELSE <<MsgEmailValid>>)
    \o (IF IsNotEmpty(x) THEN <<>> ELSE <<MsgEmailRequired>>)

\* validation that stops at the first failing property
ValidationErrorsFirstField(body) ==
    IF WhitelistErrors(body) # <<>> THEN WhitelistErrors(body)
    ELSE IF NameErrors(body.name) # <<>> THEN NameErrors(body.name)
    ELSE EmailErrors(body.email)

ValidationErrors(body) ==
    WhitelistErrors(body) \o NameErrors(body.name) \o EmailErrors(body.email)

\* ------------------------------------------------------------- exceptions
NoMsg == [kind |-> "undef", text |-> <<>>, items |-> <<>>]
SingleMsg(text) == [kind |-> "string", text |-> text, items |-> <<>>]
ListMsg(items) == [kind |-> "list", text |-> <<>>, items |-> items]

\* `x || y` on a message value
Truthy(m) == ~(m.kind = "undef" \/ (m.kind = "string" /\ m.text = <<>>))

ConflictText(email) == <<"User with email ">> \o email \o <<" already exists">>

UserConflictException(email) ==
    [http |-> TRUE, status |-> CONFLICT, name |-> "UserConflictException",
     respIsString |-> FALSE, respString |-> <<>>,
     respMessage |-> SingleMsg(ConflictText(email)), respError |-> "Conflict",
     respItems |-> <<>>,
     message |-> ConflictText(email)]

BadRequestException(errors) ==
    [http |-> TRUE, status |-> BAD_REQUEST, name |-> "BadRequestException",
     respIsString |-> FALSE, respString |-> <<>>,
     respMessage |-> ListMsg(errors), respError |-> "Bad Request",
     respItems |-> <<>>,
     message |-> <<"Bad Request Exception">>]

ThrottlerException ==
    [http |-> TRUE, status |-> TOO_MANY_REQUESTS, name |-> "ThrottlerException",
     respIsString |-> TRUE, respString |-> <<"ThrottlerException: Too Many Requests">>,
     respMessage |-> NoMsg, respError |-> "", respItems |-> <<>>,
     message |-> <<"ThrottlerException: Too Many Requests">>]

\* nothing was thrown
NoException ==
    [http |-> FALSE, status |-> 0, name |-> "",
     respIsString |-> FALSE, respString |-> <<>>,
     respMessage |-> NoMsg, respError |-> "", respItems |-> <<>>,
     message |-> <<>>]

\* a storage layer that reports its failures as HttpExceptions
QueryFailedErrorAsHttp(detail) ==
    [http |-> TRUE, status |-> INTERNAL_SERVER_ERROR, name |-> "InternalServerErrorException",
     respIsString |-> FALSE, respString |-> <<>>,
     respMessage |-> SingleMsg(<<detail>>), respError |-> "Internal Server Error",
     respItems |-> <<>>,
     message |-> <<detail>>]

\* an error that is not an HttpException (driver error, constraint violation)
QueryFailedError(detail) ==
    [http |-> FALSE, status |-> 0, name |-> "QueryFailedError",
     respIsString |-> FALSE, respString |-> <<>>,
     respMessage |-> NoMsg, respError |-> "", respItems |-> <<>>,
     message |-> <<detail>>]

\* HttpException.initMessage for a response that is neither a string nor an
\* object with a string `message`: the class name split into words
ClassNameWords == <<"Http Exception">>

\* new HttpException(text, status)
HttpExceptionOfString(text, status) ==
    [http |-> TRUE, status |-> status, name |-> "HttpException",
     respIsString |-> TRUE, respString |-> text,
     respMessage |-> NoMsg, respError |-> "", respItems |-> <<>>,
     message |-> text]

\* new HttpException({ message, error }, status); either property may be
\* absent (NoMsg, "")
HttpExceptionOfObject(msg, error, status) ==
    [http |-> TRUE, status |-> status, name |-> "HttpException",
     respIsString |-> FALSE, respString |-> <<>>,
     respMessage |-> msg, respError |-> error, respItems |-> <<>>,
     message |-> IF msg.kind = "string" THEN msg.text ELSE ClassNameWords]

\* new HttpException([...], status): the response is the array itself, which
\* has no `message` and no `error` property
HttpExceptionOfArray(items, status) ==
    [http |-> TRUE, status |-> status, name |-> "HttpException",
     respIsString |-> FALSE, respString |-> <<>>,
     respMessage |-> NoMsg, respError |-> "", respItems |-> items,
     message |-> ClassNameWords]

\* a thrown value that is not an HttpException: an Error (sub)class instance
\* with its message, a plain object with `message` and `status` properties, a
\* string (name "string", the text as message), null or undefined
Thrown(name, detail, status) ==
    [http |-> FALSE, status |-> status, name |-> name,
     respIsString |-> FALSE, respString |-> <<>>,
     respMessage |-> NoMsg, respError |-> "", respItems |-> <<>>,
     message |-> detail]

\* --------------------------------------------- HttpExceptionFilter.catch
\* the status read off the thrown value without the instanceof check
FilterStatusNoFallback(exception) == exception.status

FilterStatus(exception) ==
    IF exception.http THEN exception.status ELSE INTERNAL_SERVER_ERROR

\* a filter that passes on the message of whatever was thrown
FilterMessagePassesDetail(exception) ==
    IF exception.http /\ exception.respIsString
    THEN SingleMsg(exception.respString)
    ELSE IF Truthy(exception.respMessage)
         THEN exception.respMessage
         ELSE SingleMsg(exception.message)

FilterMessage(exception) ==
    IF exception.http
    THEN IF exception.respIsString
         THEN SingleMsg(exception.respString)
         ELSE IF Truthy(exception.respMessage)
              THEN exception.respMessage
              ELSE SingleMsg(exception.message)
    ELSE SingleMsg(<<"Internal server error">>)

FilterError(exception) ==
    IF exception.http
    THEN IF exception.respIsString
         THEN exception.name
         ELSE IF exception.respError # "" THEN exception.respError ELSE exception.name
    ELSE "Internal Server Error"

\* an envelope that always reports 500, whatever status is sent
ErrorResponseFixedStatus(exception, url, method, t) ==
    [statusCode |-> INTERNAL_SERVER_ERROR,
     timestamp |-> t,
     path |-> url,
     method |-> method,
     message |-> FilterMessage(exception),
     error |-> FilterError(exception)]

ErrorResponse(exception, url, method, t) ==
    [statusCode |-> FilterStatus(exception),
     timestamp |-> t,
     path |-> url,
     method |-> method,
     message |-> FilterMessage(exception),
     error |-> FilterError(exception)]

\* JSON.stringify(errorResponse): the members in the order of the literal
JsonStringify(envelope) ==
    <<[key |-> "statusCode", value |-> envelope.statusCode],
      [key |-> "timestamp", value |-> envelope.timestamp],
      [key |-> "path", value |-> envelope.path],
      [key |-> "method", value |-> envelope.method],
      [key |-> "message", value |-> envelope.message],
      [key |-> "error", value |-> envelope.error]>>

\* the first argument of logger.error: `${request.method} ${request.url}`
LogLabel(method, url) == <<method, " ", url>>

NoEnvelope ==
    [statusCode |-> 0, timestamp |-> 0, path |-> "", method |-> "",
     message |-> NoMsg, error |-> ""]

\* ------------------------------------------------------------------ state
VARIABLES
    impl,     \* which UsersService revision is wired in: "db" or "mem"
    users,    \* the stored records, in insertion order
    nextId,   \* next id handed out (AUTOINCREMENT sequence / nextId field)
    now,      \* server clock
    hits,     \* ThrottlerGuard: POST /users hits per client in the window
    req,      \* per request: position in the pipeline and what it observed
    val,      \* one payload taken through ValidationPipe on its own
    listCall, \* one getUserList call over a given answer of repository.find
    caught,   \* thrown values taken through HttpExceptionFilter.catch
    front,    \* LoggingMiddleware and ThrottlerGuard over every route and client
    mw,       \* one LoggingMiddleware.use call on a given request
    ext       \* one getExternalUsers call over a given answer of axios.get

vars == <<impl, users, nextId, now, hits, req, val, listCall, caught, front, mw, ext>>

Reqs == 1..MaxReq
Clients == {"c1"}

\* ----------------------------------------------------------- request data
Email1 == <<"a", "@", "a", ".", "a", "a">>
Email2 == <<"A", "@", "a", ".", "a", "a">>
Name1 == <<"a", "a">>

Body(name, email, id, createdAt, foo) ==
    [name |-> name, email |-> email, id |-> id, createdAt |-> createdAt, foo |-> foo]

\* the request bodies sent to POST /users
Bodies ==
    { Body(Str(Name1), Str(Email1), Undef, Undef, Undef),
      Body(Str(Name1), Str(Email2), Undef, Undef, Undef),
      Body(Str(<<"a">>), Str(Email1), Undef, Undef, Undef),
      Body(Str(Name1), Str(<<"a", "@", "a">>), Undef, Undef, Undef),
      Body(Undef, Undef, Undef, Undef, Undef),
      Body(Num(7), Str(Email1), Undef, Undef, Undef),
      Body(Str(Name1), Str(Email1), Undef, Undef, Str(<<"a">>)),
      Body(Str(Name1), Str(Email2), Num(7), Num(9), Undef) }

NoUser == [id |-> 0, name |-> <<>>, email |-> <<>>, createdAt |-> 0]

NewRequest ==
    [pc |-> "new", method |-> "POST", client |-> "c1",
     body |-> Body(Undef, Undef, Undef, Undef, Undef),
     trace |-> <<>>, status |-> 0, envelope |-> NoEnvelope, result |-> NoUser,
     persisted |-> 0, list |-> <<>>, created |-> 0, thrown |-> NoException]

\* --------------------------------------------------------- users table
\* the table without its unique index on email
UniqueViolationNever(table, email) == FALSE

\* @Column({ unique: true }) email: an INSERT of an e-mail already present
\* is rejected by the table
UniqueViolation(table, email) == \E i \in 1..Len(table) : table[i].email = email

\* a lookup that never finds a record
FindOneByNothing(table, email) == {}

\* repository.findOneBy({ email }): exact match on the column
FindOneBy(table, email) == {i \in 1..Len(table) : table[i].email = email}

\* repository.create(dto): copies every entity column the DTO carries
RepositoryCreate(dto) ==
    [id |-> dto.id, name |-> dto.name.v, email |-> dto.email.v, createdAt |-> dto.createdAt]

\* an INSERT that numbers every row with the first id
InsertedRowFirstId(entity, id, t) ==
    [id |-> 1, idFrom |-> "server", name |-> entity.name, email |-> entity.email,
     createdAt |-> t, createdAtFrom |-> "server"]

\* the row an INSERT of the entity produces: @PrimaryGeneratedColumn and
\* @CreateDateColumn fill what the entity leaves unset
InsertedRow(entity, id, t) ==
    [id |-> IF entity.id.t = "undef" THEN id ELSE entity.id.n,
     idFrom |-> IF entity.id.t = "undef" THEN "server" ELSE "client",
     name |-> entity.name,
     email |-> entity.email,
     createdAt |-> IF entity.createdAt.t = "undef" THEN t ELSE entity.createdAt.n,
     createdAtFrom |-> IF entity.createdAt.t = "undef" THEN "server" ELSE "client"]

\* a record literal that takes the counter's value after the increment
MemNewUserPreIncrement(dto, id, t) ==
    [id |-> id + 1, idFrom |-> "server", name |-> dto.name.v, email |-> dto.email.v,
     createdAt |-> t, createdAtFrom |-> "server"]

\* in-memory createUser: the record literal built from the DTO, with
\* id: this.nextId++ (the counter's value before the increment)
MemNewUser(dto, id, t) ==
    [id |-> id, idFrom |-> "server", name |-> dto.name.v, email |-> dto.email.v,
     createdAt |-> t, createdAtFrom |-> "server"]

\* a scan that never finds a record
MemExistsNever(table, email) == FALSE

\* in-memory createUser: the scan over this.users.values()
MemExists(table, email) == \E i \in 1..Len(table) : table[i].email = email

\* an entry of the Map: the value together with the key it is stored under
MapEntry(key, user) ==
    [key |-> key, id |-> user.id, idFrom |-> user.idFrom, name |-> user.name,
     email |-> user.email, createdAt |-> user.createdAt,
     createdAtFrom |-> user.createdAtFrom]

\* a store with room for one record: every set replaces what is there
MapSetSingleSlot(table, key, user) == <<MapEntry(key, user)>>

\* Map.set(key, user): a new key is added at the end, the value of a key
\* already present is replaced in place
MapSet(table, key, user) ==
    IF \E i \in 1..Len(table) : table[i].key = key
    THEN [i \in 1..Len(table) |->
             IF table[i].key = key THEN MapEntry(key, user) ELSE table[i]]
    ELSE Append(table, MapEntry(key, user))

\* a query that stops at the first row
RepositoryFindFirst(table) == IF table = <<>> THEN <<>> ELSE <<table[1]>>

\* repository.find(): every row of the table, in rowid order
RepositoryFind(table) == table

\* Array.from(this.users.values()): the values in insertion order
MemValues(table) == table

\* a read that consumes what it returns
TableAfterReadDrained(table) == <<>>

\* getUserList only reads: find() is a SELECT and Array.from copies the
\* values, so the table after the call is the table before it
TableAfterRead(table) == table

\* a response that is the stored entity itself
ToResponseWholeEntity(user) == user

\* the response DTO built from a stored record
ToResponse(user) ==
    [id |-> user.id, name |-> user.name, email |-> user.email, createdAt |-> user.createdAt]

\* what `await this.userRepository.find()` resolved to
Found(rows) == [isNull |-> FALSE, rows |-> rows]
FoundNull == [isNull |-> TRUE, rows |-> <<>>]

\* the mapping without the `if (!users)` guard: null.map throws
GetUserListResultNoGuard(found) ==
    IF found.isNull
    THEN [rejected |-> TRUE, list |-> <<>>]
    ELSE [rejected |-> FALSE,
          list |-> [i \in 1..Len(found.rows) |-> ToResponse(found.rows[i])]]

\* getUserList after the await: the `if (!users)` guard, then users.map
GetUserListResult(found) ==
    IF found.isNull
    THEN [rejected |-> FALSE, list |-> <<>>]
    ELSE [rejected |-> FALSE,
          list |-> [i \in 1..Len(found.rows) |-> ToResponse(found.rows[i])]]

NoListCall == [pc |-> "off", found |-> FoundNull, rejected |-> FALSE, list |-> <<>>]

NoCaught == <<>>

NoFront == <<>>

NoMiddlewareCall == <<>>

NoExternalCall == <<>>

\* the payloads given to ValidationPipe on its own: every name and e-mail
\* value up to the length bounds, with and without undeclared properties
ValNames ==
    {Undef, Null, Num(7)} \cup {Str(s) : s \in SeqsUpTo({"a", " "}, MaxNameLen)}

ValEmails ==
    {Undef, Null, Num(7)} \cup {Str(s) : s \in SeqsUpTo(EmailAlphabet, MaxLen)}

ValIds == {Undef, Num(7)}
ValCreatedAts == {Undef, Num(9)}
ValFoos == {Undef, Str(<<"a">>)}

NoValidation ==
    [pc |-> "off", body |-> Body(Undef, Undef, Undef, Undef, Undef),
     errors |-> <<>>, envelope |-> NoEnvelope]

\* ---------------------------------------------------------------- actions
Init ==
    /\ impl \in {"db", "mem"}
    /\ users = <<>>
    /\ nextId = 1
    /\ now = 0
    \* a client may already have spent part of its window on earlier requests
    \* that stored nothing (each answered 400)
    /\ hits \in [Clients -> 0..PostLimit]
    /\ req = [r \in Reqs |-> NewRequest]
    /\ val = NoValidation
    /\ front = NoFront
    /\ mw = NoMiddlewareCall
    /\ ext = NoExternalCall
    /\ listCall = NoListCall
    /\ caught = NoCaught

\* an exception thrown while serving r reaches HttpExceptionFilter.catch,
\* which builds the envelope, logs it and sends it
Respond(rq, r, exception, events) ==
    LET envelope == ErrorResponse(exception, "/users", rq[r].method, now)
    IN  [rq EXCEPT ![r].pc = "done",
                   ![r].trace = @ \o events \o <<"filter.log", "filter.send">>,
                   ![r].thrown = exception,
                   ![r].envelope = envelope,
                   ![r].status = envelope.statusCode]

Fail(r, exception, events) == req' = Respond(req, r, exception, events)

\* ThrottlerGuard on @Throttle({ default: { limit: 5, ttl: 60000 } }): the
\* hit is counted, then compared with the limit
ThrottlerHits(h) == IF h > PostLimit THEN h ELSE h + 1

\* a guard that admits every request
ThrottlerDeniesNever(total) == FALSE

ThrottlerDenies(total) == total > PostLimit

\* A POST /users request is received.  LoggingMiddleware.use logs it and
\* calls next(); ThrottlerGuard counts the hit and admits or denies;
\* ValidationPipe.transform validates the @Body() parameter.  None of the
\* three touches the users table, so they are taken in one step.
Receive(r, c, body) ==
    /\ req[r].pc = "new"
    /\ \A q \in Reqs : q < r => req[q].pc # "new"
    /\ LET total == ThrottlerHits(hits[c])
           errors == ValidationErrors(body)
           arrived == [req EXCEPT ![r].client = c, ![r].body = body,
                                  ![r].trace = <<"middleware.log", "next", "guard">>]
       IN  /\ hits' = [hits EXCEPT ![c] = total]
           /\ IF ThrottlerDenies(total)
              THEN req' = Respond(arrived, r, ThrottlerException, <<>>)
              ELSE IF errors # <<>>
                   THEN req' = Respond(arrived, r, BadRequestException(errors), <<"pipe">>)
                   ELSE req' = [arrived EXCEPT ![r].pc = "handler",
                                               ![r].trace = Append(@, "pipe")]
    /\ UNCHANGED <<impl, users, nextId, now, val, listCall, caught, front, mw, ext>>

\* the throttling window of a client runs out
WindowExpire(c) ==
    /\ hits[c] > 0
    /\ hits' = [hits EXCEPT ![c] = 0]
    /\ UNCHANGED <<impl, users, nextId, now, req, val, listCall, caught, front, mw, ext>>

\* UsersController.createUser -> UsersService.createUser (repository-backed),
\* up to the point where it awaits save: the findOneBy query and the check
\* of its result
CreateUserFind(r, ok) ==
    /\ impl = "db"
    /\ req[r].pc = "handler"
    /\ req[r].method = "POST"
    /\ LET dto == req[r].body
           called == <<"createUser", "findOneBy">>
       IN  IF ~ok
           THEN Fail(r, QueryFailedError("findOneBy failed"), called \o <<"findOneBy.rejects">>)
           ELSE IF FindOneBy(users, dto.email.v) # {}
                THEN Fail(r, UserConflictException(dto.email.v), called)
                ELSE req' = [req EXCEPT ![r].pc = "save",
                                        ![r].trace = @ \o called \o <<"create", "save">>]
    /\ UNCHANGED <<impl, users, nextId, now, hits, val, listCall, caught, front, mw, ext>>

\* the awaited save: the INSERT runs against the table as it is now
CreateUserSave(r, ok) ==
    /\ impl = "db"
    /\ req[r].pc = "save"
    /\ LET entity == RepositoryCreate(req[r].body)
           savedUser == InsertedRow(entity, nextId, now)
       IN  IF ~ok
           THEN /\ Fail(r, QueryFailedError("save failed"), <<"save.rejects">>)
                /\ UNCHANGED <<users, nextId>>
           ELSE IF UniqueViolation(users, entity.email)
                THEN /\ Fail(r, QueryFailedError("UNIQUE constraint failed: users.email"),
                             <<"save.rejects.unique">>)
                     /\ UNCHANGED <<users, nextId>>
                ELSE /\ users' = Append(users, savedUser)
                     /\ nextId' = IF savedUser.id >= nextId THEN savedUser.id + 1 ELSE nextId
                     /\ req' = [req EXCEPT ![r].pc = "done",
                                           ![r].status = CREATED,
                                           ![r].result = ToResponse(savedUser),
                                           ![r].persisted = @ + 1]
    /\ UNCHANGED <<impl, now, hits, val, listCall, caught, front, mw, ext>>

\* UsersController.createUser -> UsersService.createUser (in-memory): scan,
\* id allocation and insertion with no await in between
MemCreateUser(r) ==
    /\ impl = "mem"
    /\ req[r].pc = "handler"
    /\ req[r].method = "POST"
    /\ LET dto == req[r].body
       IN  IF MemExists(users, dto.email.v)
           THEN /\ Fail(r, UserConflictException(dto.email.v), <<"createUser">>)
                /\ UNCHANGED <<users, nextId>>
           ELSE LET newUser == MemNewUser(dto, nextId, now)
                IN  /\ nextId' = nextId + 1
                    /\ users' = MapSet(users, newUser.id, newUser)
                    /\ req' = [req EXCEPT ![r].pc = "done",
                                          ![r].trace = @ \o <<"createUser", "set">>,
                                          ![r].status = CREATED,
                                          ![r].result = ToResponse(newUser),
                                          ![r].persisted = @ + 1]
    /\ UNCHANGED <<impl, now, hits, val, listCall, caught, front, mw, ext>>

\* time passes
Tick ==
    /\ now < MaxClock
    /\ now' = now + 1
    /\ UNCHANGED <<impl, users, nextId, hits, req, val, listCall, caught, front, mw, ext>>

Next ==
    \/ \E r \in Reqs, c \in Clients, body \in Bodies : Receive(r, c, body)
    \/ \E c \in Clients : WindowExpire(c)
    \/ \E r \in Reqs, ok \in BOOLEAN : CreateUserFind(r, ok)
    \/ \E r \in Reqs, ok \in BOOLEAN : CreateUserSave(r, ok)
    \/ \E r \in Reqs : MemCreateUser(r)
    \/ Tick

Spec == Init /\ [][Next]_vars

\* ------------------------------------------- non-overlapping invocation
\* a request is received only when no other request is being served
ReceiveAlone(r, c, body) ==
    /\ \A q \in Reqs : req[q].pc \in {"new", "done"}
    /\ Receive(r, c, body)

NextSeq ==
    \/ \E r \in Reqs, c \in Clients, body \in Bodies : ReceiveAlone(r, c, body)
    \/ \E c \in Clients : WindowExpire(c)
    \/ \E r \in Reqs, ok \in BOOLEAN : CreateUserFind(r, ok)
    \/ \E r \in Reqs, ok \in BOOLEAN : CreateUserSave(r, ok)
    \/ \E r \in Reqs : MemCreateUser(r)
    \/ Tick

SpecSeq == Init /\ [][NextSeq]_vars

\* ------------------------------------------------ UsersService alone
\* the requests that ThrottlerGuard admitted and ValidationPipe accepted:
\* POST /users with a valid DTO and GET /users, served concurrently
Calls == 1..MaxCalls

ValidDtos == {body \in Bodies : ValidationErrors(body) = <<>>}

\* successful createUser calls so far
CreatedCount(rq) == Cardinality({q \in DOMAIN rq : rq[q].persisted > 0})

InitSvc ==
    /\ impl \in {"db", "mem"}
    /\ users = <<>>
    /\ nextId = 1
    /\ now = 0
    /\ hits = [c \in Clients |-> 0]
    /\ req = [r \in Calls |-> NewRequest]
    /\ val = NoValidation
    /\ front = NoFront
    /\ mw = NoMiddlewareCall
    /\ ext = NoExternalCall
    /\ listCall = NoListCall
    /\ caught = NoCaught

\* the request reaches its controller method: createUser(dto) for POST,
\* getUsers() for GET
Admit(r, method, dto) ==
    /\ req[r].pc = "new"
    /\ \A q \in Calls : q < r => req[q].pc # "new"
    /\ req' = [req EXCEPT ![r].pc = "handler",
                          ![r].method = method,
                          ![r].body = dto,
                          ![r].trace = IF method = "POST"
                                       THEN <<"middleware.log", "next", "guard", "pipe">>
                                       ELSE <<"middleware.log", "next", "guard">>]
    /\ UNCHANGED <<impl, users, nextId, now, hits, val, listCall, caught, front, mw, ext>>

\* UsersController.getUsers -> UsersService.getUserList (repository-backed):
\* the awaited find() either rejects or resolves with the rows of the table
GetUserList(r, ok) ==
    /\ impl = "db"
    /\ req[r].pc = "handler"
    /\ req[r].method = "GET"
    /\ IF ~ok
       THEN Fail(r, QueryFailedError("find failed"), <<"getUserList", "find", "find.rejects">>)
       ELSE req' = [req EXCEPT ![r].pc = "done",
                               ![r].trace = @ \o <<"getUserList", "find", "return">>,
                               ![r].list = GetUserListResult(Found(RepositoryFind(users))).list,
                               ![r].created = CreatedCount(req)]
    /\ users' = TableAfterRead(users)
    /\ UNCHANGED <<impl, nextId, now, hits, val, listCall, caught, front, mw, ext>>

\* UsersController.getUsers -> UsersService.getUserList (in-memory): the
\* values of the Map, each the four-field record createUser stored
MemGetUserList(r) ==
    /\ impl = "mem"
    /\ req[r].pc = "handler"
    /\ req[r].method = "GET"
    /\ req' = [req EXCEPT ![r].pc = "done",
                          ![r].trace = @ \o <<"getUserList", "return">>,
                          ![r].list = [i \in 1..Len(MemValues(users)) |->
                                          ToResponse(MemValues(users)[i])],
                          ![r].created = CreatedCount(req)]
    /\ users' = TableAfterRead(users)
    /\ UNCHANGED <<impl, nextId, now, hits, val, listCall, caught, front, mw, ext>>

NextSvc ==
    \/ \E r \in Calls, dto \in ValidDtos : Admit(r, "POST", dto)
    \/ \E r \in Calls : Admit(r, "GET", NewRequest.body)
    \/ \E r \in Calls, ok \in BOOLEAN : CreateUserFind(r, ok)
    \/ \E r \in Calls, ok \in BOOLEAN : CreateUserSave(r, ok)
    \/ \E r \in Calls : MemCreateUser(r)
    \/ \E r \in Calls, ok \in BOOLEAN : GetUserList(r, ok)
    \/ \E r \in Calls : MemGetUserList(r)
    \/ Tick

SpecSvc == InitSvc /\ [][NextSvc]_vars

\* ------------------------------- getUserList over a mocked repository
\* the entities a mocked find() resolves with: User objects that need not
\* come from the table
MockEntities ==
    {[id |-> id, idFrom |-> "server", name |-> Name1, email |-> email,
      createdAt |-> t, createdAtFrom |-> "server"] :
        id \in 1..MaxRows, email \in {Email1, Email2}, t \in 0..MaxClock}

InitList ==
    /\ impl = "db"
    /\ users = <<>>
    /\ nextId = 1
    /\ now = 0
    /\ hits = [c \in Clients |-> 0]
    /\ req = [r \in Reqs |-> NewRequest]
    /\ val = NoValidation
    /\ front = NoFront
    /\ mw = NoMiddlewareCall
    /\ ext = NoExternalCall
    /\ caught = NoCaught
    /\ \/ listCall = [NoListCall EXCEPT !.pc = "find", !.found = FoundNull]
       \/ \E n \in 0..MaxRows : \E rows \in [1..n -> MockEntities] :
              listCall = [NoListCall EXCEPT !.pc = "find", !.found = Found(rows)]

\* UsersService.getUserList resumes with what find() resolved to
ListCallReturn ==
    /\ listCall.pc = "find"
    /\ LET result == GetUserListResult(listCall.found)
       IN  listCall' = [listCall EXCEPT !.pc = "returned",
                                        !.rejected = result.rejected,
                                        !.list = result.list]
    /\ UNCHANGED <<impl, users, nextId, now, hits, req, val, caught, front, mw, ext>>

NextList == ListCallReturn

SpecList == InitList /\ [][NextList]_vars

\* ------------------------------------------ HttpExceptionFilter alone
\* the HttpExceptions given to the filter: string, object and array
\* responses, and the exceptions the pipeline throws
HttpThrown ==
    { HttpExceptionOfString(<<"Test error">>, BAD_REQUEST),
      HttpExceptionOfObject(SingleMsg(<<"Validation failed">>), "Bad Request", BAD_REQUEST),
      HttpExceptionOfObject(NoMsg, "", BAD_REQUEST),
      HttpExceptionOfObject(SingleMsg(<<"Database connection failed">>),
                            "Internal Server Error", INTERNAL_SERVER_ERROR),
      HttpExceptionOfArray(<<MsgNameRequired, MsgEmailRequired>>, BAD_REQUEST),
      HttpExceptionOfArray(<<MsgEmailRequired, MsgNameRequired>>, BAD_REQUEST),
      BadRequestException(<<MsgNameRequired, MsgEmailRequired>>),
      BadRequestException(<<MsgEmailRequired, MsgNameRequired>>),
      UserConflictException(Email1),
      ThrottlerException }

\* the thrown values that are not HttpExceptions
OtherThrown ==
    { Thrown("Error", <<"Database connection failed">>, 0),
      Thrown("TypeError", <<"Type error">>, 0),
      Thrown("ReferenceError", <<"Reference error">>, 0),
      Thrown("null", <<>>, 0),
      Thrown("undefined", <<>>, 0),
      Thrown("string", <<"String error">>, 0),
      Thrown("object", <<"Object error">>, BAD_REQUEST),
      QueryFailedError("save failed") }

Urls == {"/users", "/users?limit=1"}
Methods == {"GET", "POST"}

\* the filter is invoked twice for the same request
Runs == 1..2

InitFilter ==
    /\ impl = "db"
    /\ users = <<>>
    /\ nextId = 1
    /\ now = 0
    /\ hits = [c \in Clients |-> 0]
    /\ req = [r \in Reqs |-> NewRequest]
    /\ val = NoValidation
    /\ front = NoFront
    /\ mw = NoMiddlewareCall
    /\ ext = NoExternalCall
    /\ listCall = NoListCall
    /\ \E url \in Urls, method \in Methods :
          \E thrown \in [Runs -> HttpThrown \cup OtherThrown] :
             caught = [i \in Runs |->
                          [pc |-> "thrown", thrown |-> thrown[i],
                           url |-> url, method |-> method,
                           status |-> 0, body |-> NoEnvelope,
                           logLabel |-> <<>>, logPayload |-> <<>>,
                           events |-> <<>>, propagated |-> ""]]

\* a filter that answers first and logs afterwards
FilterEventsSendFirst(loggerOk) == <<"send", "log">>

\* the two calls catch makes after building the envelope, in order:
\* this.logger.error(...), then response.status(status).json(errorResponse);
\* a throw of the first leaves catch before the second
FilterEvents(loggerOk) ==
    IF loggerOk THEN <<"log", "send">> ELSE <<"log">>

\* HttpExceptionFilter.catch(exception, host): build the envelope, log it,
\* send it.  loggerOk: this.logger.error returns; otherwise it throws and
\* its error leaves catch
FilterCatch(i, loggerOk) ==
    /\ caught[i].pc = "thrown"
    /\ LET c == caught[i]
           errorResponse == ErrorResponse(c.thrown, c.url, c.method, now)
           events == FilterEvents(loggerOk)
           sends == \E k \in 1..Len(events) : events[k] = "send"
       IN  caught' = [caught EXCEPT ![i] =
                         [c EXCEPT !.pc = IF loggerOk THEN "sent" ELSE "threw",
                                   !.logLabel = LogLabel(c.method, c.url),
                                   !.logPayload = JsonStringify(errorResponse),
                                   !.events = events,
                                   !.propagated = IF loggerOk THEN "" ELSE "Logger error",
                                   !.status = IF sends THEN FilterStatus(c.thrown) ELSE 0,
                                   !.body = IF sends THEN errorResponse ELSE NoEnvelope]]
    /\ UNCHANGED <<impl, users, nextId, now, hits, req, val, listCall, front, mw, ext>>

NextFilter ==
    \/ \E i \in Runs, loggerOk \in BOOLEAN : FilterCatch(i, loggerOk)
    \/ Tick

SpecFilter == InitFilter /\ [][NextFilter]_vars

\* --------------------------- front of the pipeline: middleware and guard
\* the clock advances in steps of one throttling window
TickMs == Ttl

RoutePostUsers == [method |-> "POST", url |-> "/users"]
RouteGetUsers == [method |-> "GET", url |-> "/users"]
\* a route of AppController, which carries no @Throttle override
RouteRoot == [method |-> "GET", url |-> "/"]
Routes == {RoutePostUsers, RouteGetUsers, RouteRoot}

FrontClients == {"c1", "c2"}

\* a throttler that applies the module-wide limit to every route
RouteLimitGlobalOnly(route) == DefaultLimit

\* the limit of the route's handler: its @Throttle override, else the
\* ThrottlerModule.forRoot limit
RouteLimit(route) ==
    IF route = RoutePostUsers THEN PostLimit
    ELSE IF route = RouteGetUsers THEN GetLimit
    ELSE DefaultLimit

\* the storage key of a hit: the handler and the tracker (the client's IP)
ThrottlerKey(client, route) == <<client, route>>

\* the hits of a key that are younger than the ttl
LiveHits(times, t) ==
    SelectSeq(times, LAMBDA h : (t - h) * TickMs < Ttl)

\* a guard that lets one more request through
ThrottlerExceedsOffByOne(total, limit) == total > limit + 1

\* ThrottlerGuard.handleRequest: totalHits > limit throws ThrottlerException
ThrottlerExceeds(total, limit) == total > limit

\* new Date().toISOString() of the instant t
Iso(t) == [iso |-> t]

\* a template literal renders undefined and null by their names
TemplateText(x) ==
    IF x.t = "undef" THEN "undefined"
    ELSE IF x.t = "null" THEN "null"
    ELSE x.v

\* a log line without the timestamp
RequestLogLineNoTimestamp(t, method, originalUrl) ==
    <<TemplateText(method), " ", TemplateText(originalUrl)>>

\* LoggingMiddleware.use: `[${timestamp}] ${method} ${originalUrl}`
RequestLogLine(t, method, originalUrl) ==
    <<"[", Iso(t), "] ", TemplateText(method), " ", TemplateText(originalUrl)>>

IdleRequest ==
    [pc |-> "idle", client |-> "c1", route |-> RouteRoot, log |-> <<>>,
     nextCalls |-> 0, status |-> 0, envelope |-> NoEnvelope]

\* hits a client has already made in the current window
HitsSoFar(n) == [i \in 1..n |-> 0]

InitFront ==
    /\ impl = "db"
    /\ users = <<>>
    /\ nextId = 1
    /\ now = 0
    /\ hits = [c \in Clients |-> 0]
    /\ req = [r \in Reqs |-> NewRequest]
    /\ val = NoValidation
    /\ listCall = NoListCall
    /\ caught = NoCaught
    /\ mw = NoMiddlewareCall
    /\ ext = NoExternalCall
    \* client c1 may already have made all but one of the requests the window
    \* allows on GET /users and on the route without an override
    /\ \E g \in {0, GetLimit - 1}, d \in {0, DefaultLimit - 1} :
          front = [hits |-> [k \in {ThrottlerKey(c, route) : c \in FrontClients, route \in Routes} |->
                               IF k = ThrottlerKey("c1", RouteGetUsers) THEN HitsSoFar(g)
                               ELSE IF k = ThrottlerKey("c1", RouteRoot) THEN HitsSoFar(d)
                               ELSE <<>>],
                   admitted |-> [k \in {ThrottlerKey(c, route) : c \in FrontClients, route \in Routes} |->
                               IF k = ThrottlerKey("c1", RouteGetUsers) THEN g
                               ELSE IF k = ThrottlerKey("c1", RouteRoot) THEN d
                               ELSE 0],
                   issued |-> 0,
                   cur |-> IdleRequest]

\* a request of a client arrives once the previous one has left the guard
FrontArrive(c, route) ==
    /\ front.cur.pc \in {"idle", "admitted", "denied"}
    /\ front.issued < MaxHits
    /\ front' = [front EXCEPT !.issued = @ + 1,
                              !.cur = [IdleRequest EXCEPT !.pc = "arrived",
                                                          !.client = c,
                                                          !.route = route]]
    /\ UNCHANGED <<impl, users, nextId, now, hits, req, val, listCall, caught, mw, ext>>

\* LoggingMiddleware.use(req, res, next): log the request, call next()
FrontMiddleware ==
    /\ front.cur.pc = "arrived"
    /\ front' = [front EXCEPT
                    !.cur.log = Append(@, RequestLogLine(now, Str(front.cur.route.method),
                                                         Str(front.cur.route.url))),
                    !.cur.nextCalls = @ + 1,
                    !.cur.pc = "guard"]
    /\ UNCHANGED <<impl, users, nextId, now, hits, req, val, listCall, caught, mw, ext>>

\* ThrottlerGuard.canActivate: count the hit under the key of the handler
\* and the client, then admit the request or throw ThrottlerException, which
\* HttpExceptionFilter renders
FrontGuard ==
    /\ front.cur.pc = "guard"
    /\ LET c == front.cur
           k == ThrottlerKey(c.client, c.route)
           times == Append(front.hits[k], now)
       IN  IF ThrottlerExceeds(Len(times), RouteLimit(c.route))
           THEN front' = [front EXCEPT
                            !.hits[k] = times,
                            !.cur.pc = "denied",
                            !.cur.status = TOO_MANY_REQUESTS,
                            !.cur.envelope = ErrorResponse(ThrottlerException, c.route.url,
                                                           c.route.method, now)]
           ELSE front' = [front EXCEPT
                            !.hits[k] = times,
                            !.admitted[k] = @ + 1,
                            !.cur.pc = "admitted"]
    /\ UNCHANGED <<impl, users, nextId, now, hits, req, val, listCall, caught, mw, ext>>

\* time passes: the hits that have reached their ttl leave the storage
FrontTick ==
    /\ now < MaxClock
    /\ now' = now + 1
    /\ front' = [front EXCEPT
                    !.hits = [k \in DOMAIN @ |-> LiveHits(@[k], now + 1)],
                    !.admitted = [k \in DOMAIN @ |->
                                     IF LiveHits(front.hits[k], now + 1) = <<>> THEN 0 ELSE @[k]]]
    /\ UNCHANGED <<impl, users, nextId, hits, req, val, listCall, caught, mw, ext>>

NextFront ==
    \/ \E c \in FrontClients, route \in Routes : FrontArrive(c, route)
    \/ FrontMiddleware
    \/ FrontGuard
    \/ FrontTick

SpecFront == InitFront /\ [][NextFront]_vars

\* ------------------------------------------- LoggingMiddleware alone
\* the values of req.method and req.originalUrl given to use(): strings,
\* the empty string, undefined and null
MwMethods == {Undef, Null, Str(""), Str("GET"), Str("POST")}
MwUrls == {Undef, Null, Str(""), Str("/users"), Str("/users?limit=1")}

InitMw ==
    /\ impl = "db"
    /\ users = <<>>
    /\ nextId = 1
    /\ now = 0
    /\ hits = [c \in Clients |-> 0]
    /\ req = [r \in Reqs |-> NewRequest]
    /\ val = NoValidation
    /\ listCall = NoListCall
    /\ caught = NoCaught
    /\ front = NoFront
    /\ ext = NoExternalCall
    /\ \E method \in MwMethods, originalUrl \in MwUrls :
          mw = [pc |-> "called", method |-> method, originalUrl |-> originalUrl,
                events |-> <<>>, log |-> <<>>, nextArgs |-> <<>>,
                at |-> 0, propagated |-> ""]

\* a middleware that hands the request on whether or not the logger threw
UseEventsAlwaysNext(loggerOk) == <<"log", "next">>

\* the two calls use() makes, in order: this.logger.log(...), then next();
\* a throw of the first leaves use() before the second
UseEvents(loggerOk) ==
    IF loggerOk THEN <<"log", "next">> ELSE <<"log">>

\* LoggingMiddleware.use(req, res, next).  loggerOk: this.logger.log
\* returns, otherwise it throws; nextOk: next() returns, otherwise it throws.
\* Neither call is wrapped in a try block, so a throw leaves use().
Use(loggerOk, nextOk) ==
    /\ mw.pc = "called"
    /\ LET events == UseEvents(loggerOk)
           nextCalled == \E k \in 1..Len(events) : events[k] = "next"
       IN  mw' = [mw EXCEPT
                     !.pc = IF loggerOk /\ (nextOk \/ ~nextCalled) THEN "returned" ELSE "threw",
                     !.events = events,
                     !.at = now,
                     !.log = <<RequestLogLine(now, mw.method, mw.originalUrl)>>,
                     !.nextArgs = IF nextCalled THEN << <<>> >> ELSE <<>>,
                     !.propagated = IF ~loggerOk THEN "Logger error"
                                    ELSE IF nextCalled /\ ~nextOk THEN "Next function error"
                                    ELSE ""]
    /\ UNCHANGED <<impl, users, nextId, now, hits, req, val, listCall, caught, front, ext>>

NextMw ==
    \/ \E loggerOk, nextOk \in BOOLEAN : Use(loggerOk, nextOk)
    \/ Tick

SpecMw == InitMw /\ [][NextMw]_vars

\* ------------------------------------- UsersService.getExternalUsers
\* JavaScript values found in the answer of the external API
JsUndefined == [t |-> "undefined", s |-> "", n |-> 0, items |-> <<>>]
JsNull == [t |-> "null", s |-> "", n |-> 0, items |-> <<>>]
JsString(s) == [t |-> "string", s |-> s, n |-> 0, items |-> <<>>]
JsNumber(n) == [t |-> "number", s |-> "", n |-> n, items |-> <<>>]
JsBoolean(b) == [t |-> "boolean", s |-> "", n |-> IF b THEN 1 ELSE 0, items |-> <<>>]
JsArray(items) == [t |-> "array", s |-> "", n |-> 0, items |-> items]
\* an object with neither a `data` nor a `users` property
JsEmptyObject == [t |-> "object", s |-> "", n |-> 0, items |-> <<>>]
\* an object with the properties `data` and `users` (undefined: not set)
JsObject(dataField, usersField) ==
    [t |-> "object", s |-> "", n |-> 0, items |-> <<>>,
     data |-> dataField, users |-> usersField]

ExternalUser1 == [id |-> 1, email |-> "external1@reqres.in"]
ExternalUser2 == [id |-> 2, email |-> "external2@reqres.in"]

\* ToBoolean: undefined, null, '', 0 and false are falsy; every array and
\* every object is truthy
ToBoolean(v) ==
    CASE v.t \in {"undefined", "null"} -> FALSE
      [] v.t = "string" -> v.s # ""
      [] v.t = "number" -> v.n # 0
      [] v.t = "boolean" -> v.n = 1
      [] OTHER -> TRUE

\* v.field for a value that is neither undefined nor null: a property that
\* is not there reads as undefined
GetProperty(v, field) ==
    IF v.t = "object" /\ field \in DOMAIN v THEN v[field] ELSE JsUndefined

\* a && b, with b evaluated only when a is truthy
LogicalAnd(a, field) == IF ToBoolean(a) THEN GetProperty(a, field) ELSE a

\* the values of the properties `data` and `users` of the answer's body
FieldValues ==
    { JsUndefined, JsNull, JsNumber(0), JsNumber(1), JsString(""), JsString("x"),
      JsBoolean(FALSE), JsArray(<<>>), JsArray(<<ExternalUser1, ExternalUser2>>),
      JsEmptyObject }

\* the bodies (response.data) the external API answers with
Payloads ==
    { JsUndefined, JsNull, JsString("invalid json"), JsString(""), JsNumber(0),
      JsNumber(5), JsBoolean(TRUE), JsArray(<<>>), JsArray(<<ExternalUser1>>) }
    \cup {JsObject(d, u) : d \in FieldValues, u \in FieldValues}

\* a thrown or rejected value: name, message and the extra properties axios
\* puts on its errors
JsError(name, message, code, status) ==
    [name |-> name, message |-> message, code |-> code, status |-> status]

\* the errors axios.get rejects with: an Error, a timeout, a 404 answer
Rejections ==
    { JsError("Error", "Network Error", "", 0),
      JsError("object", "timeout of 5000ms exceeded", "ECONNABORTED", 0),
      JsError("object", "Not Found", "", 404) }

NoError == JsError("", "", "", 0)

\* what `await axios.get(...)` ends with: a rejection, a response object
\* with a body, or (from a mock) no response object at all
AxiosOutcomes ==
    {[kind |-> "rejected", error |-> e, data |-> JsUndefined] : e \in Rejections}
    \cup {[kind |-> "resolved", error |-> NoError, data |-> d] : d \in Payloads}
    \cup {[kind |-> "undefined", error |-> NoError, data |-> JsUndefined]}

Returned(value) == [ok |-> TRUE, value |-> value, error |-> NoError]
ThrownError(error) == [ok |-> FALSE, value |-> JsUndefined, error |-> error]

\* the try block of getExternalUsers after the await
TryBlock(outcome) ==
    IF outcome.kind = "rejected" THEN ThrownError(outcome.error)
    ELSE IF outcome.kind = "undefined"
    THEN ThrownError(JsError("TypeError", "Cannot read properties of undefined", "", 0))
    ELSE LET data == outcome.data
         IN  IF ToBoolean(LogicalAnd(data, "data")) THEN Returned(GetProperty(data, "data"))
             ELSE IF ToBoolean(LogicalAnd(data, "users")) THEN Returned(GetProperty(data, "users"))
             ELSE IF data.t = "array" THEN Returned(data)
             ELSE ThrownError(JsError("Error", "Invalid response structure from external API", "", 0))

\* a catch block that throws what it caught
CatchBlockRethrows(error) == error

\* catch (error) { throw new Error('Failed to fetch external users') }
CatchBlock(error) == JsError("Error", "Failed to fetch external users", "", 0)

InitExt ==
    /\ impl = "db"
    /\ users = <<>>
    /\ nextId = 1
    /\ now = 0
    /\ hits = [c \in Clients |-> 0]
    /\ req = [r \in Reqs |-> NewRequest]
    /\ val = NoValidation
    /\ listCall = NoListCall
    /\ caught = NoCaught
    /\ front = NoFront
    /\ mw = NoMiddlewareCall
    /\ ext = [pc |-> "idle", gets |-> 0,
              outcome |-> [kind |-> "none", error |-> NoError, data |-> JsUndefined],
              result |-> Returned(JsUndefined)]

\* getExternalUsers() up to its await: axios.get('https://reqres.in/api/users')
ExtCall ==
    /\ ext.pc = "idle"
    /\ ext' = [ext EXCEPT !.pc = "awaiting", !.gets = @ + 1]
    /\ UNCHANGED <<impl, users, nextId, now, hits, req, val, listCall, caught, front, mw>>

\* the awaited call settles and getExternalUsers runs to its end
ExtSettle(outcome) ==
    /\ ext.pc = "awaiting"
    /\ LET tried == TryBlock(outcome)
       IN  ext' = [ext EXCEPT !.pc = "settled",
                              !.outcome = outcome,
                              !.result = IF tried.ok THEN tried
                                         ELSE ThrownError(CatchBlock(tried.error))]
    /\ UNCHANGED <<impl, users, nextId, now, hits, req, val, listCall, caught, front, mw>>

NextExt ==
    \/ ExtCall
    \/ \E outcome \in AxiosOutcomes : ExtSettle(outcome)
    \/ Tick

SpecExt == InitExt /\ [][NextExt]_vars

\* ------------------------------------------------- ValidationPipe alone
InitVal ==
    /\ impl = "db"
    /\ users = <<>>
    /\ nextId = 1
    /\ now = 0
    /\ hits = [c \in Clients |-> 0]
    /\ req = [r \in Reqs |-> NewRequest]
    /\ listCall = NoListCall
    /\ caught = NoCaught
    /\ front = NoFront
    /\ mw = NoMiddlewareCall
    /\ ext = NoExternalCall
    /\ \E name \in ValNames, email \in ValEmails,
          id \in ValIds, createdAt \in ValCreatedAts, foo \in ValFoos :
            val = [NoValidation EXCEPT !.pc = "body",
                                       !.body = Body(name, email, id, createdAt, foo)]

\* ValidationPipe.transform on the payload; a non-empty error list is thrown
\* as BadRequestException and rendered by HttpExceptionFilter.catch
ValidateBody ==
    /\ val.pc = "body"
    /\ LET errors == ValidationErrors(val.body)
       IN  val' = [val EXCEPT !.pc = "validated",
                              !.errors = errors,
                              !.envelope = IF errors # <<>>
                                           THEN ErrorResponse(BadRequestException(errors),
                                                              "/users", "POST", now)
                                           ELSE NoEnvelope]
    /\ UNCHANGED <<impl, users, nextId, now, hits, req, listCall, caught, front, mw, ext>>

NextVal == ValidateBody

SpecVal == InitVal /\ [][NextVal]_vars


\* ================================================================ claims
HasEventIn(rq, r, e) == \E i \in 1..Len(rq[r].trace) : rq[r].trace[i] = e

HasEvent(r, e) == HasEventIn(req, r, e)

Stored(table, email) == \E i \in 1..Len(table) : table[i].email = email

ConflictEnvelopeMessage(email) ==
    [kind |-> "string",
     text |-> <<"User with email ">> \o email \o <<" already exists">>,
     items |-> <<>>]

ListsMessage(envelope, m) ==
    /\ envelope.message.kind = "list"
    /\ \E i \in 1..Len(envelope.message.items) : envelope.message.items[i] = m

\* C1: in every reachable state, under any interleaving of createUser calls
\* (findOneBy, a suspension point, then save), no two stored user records
\* have the same email.
C1_UniqueEmail ==
    \A i, j \in 1..Len(users) : i # j => users[i].email # users[j].email

\* two requests with the same email both passed the existence check; one
\* stored its record and the save of the other was rejected by the table
C1_Witness ==
    \E r, q \in Reqs :
        /\ r # q
        /\ req[r].body.email = req[q].body.email
        /\ req[r].status = CREATED
        /\ HasEvent(q, "save.rejects.unique")

C3_UniqueViolationIsConflict ==
    \A r \in Reqs :
        HasEvent(r, "save.rejects.unique")
        => /\ req[r].status = 409
           /\ req[r].envelope.message = ConflictEnvelopeMessage(req[r].body.email.v)

\* C4: when createUser finds an existing record with the requested email it
\* performs no write: repository.create and repository.save (Map.set in the
\* in-memory service) are not invoked, and the stored records and the id
\* counter are the same after the failed call as before it.
C4_ConflictWritesNothing ==
    [][\A r \in Reqs :
          ( /\ req[r].pc = "handler"
            /\ req'[r].pc # "handler"
            /\ Stored(users, req[r].body.email.v)
            /\ ~HasEventIn(req', r, "findOneBy.rejects") )
          => /\ req'[r].pc = "done"
             /\ users' = users
             /\ nextId' = nextId
             /\ req'[r].persisted = 0
             /\ ~HasEventIn(req', r, "create")
             /\ ~HasEventIn(req', r, "save")
             /\ ~HasEventIn(req', r, "set")
      ]_vars

\* the in-memory service rejected a duplicate: one record, one id handed out
C4_Witness ==
    /\ impl = "mem"
    /\ Len(users) = 1
    /\ nextId = 2
    /\ \E r \in Reqs : req[r].status = CONFLICT /\ HasEvent(r, "createUser")

\* C5: a POST /users request is answered 201 if and only if that request
\* persisted exactly one new record; a request answered 400, 409, 429 or 500
\* persisted none; every answered request has one of these five statuses.
C5_StatusMatchesPersistence ==
    /\ \A r \in Reqs :
          IF req[r].pc = "done"
          THEN /\ req[r].status \in {201, 400, 409, 429, 500}
               /\ req[r].status = 201 <=> req[r].persisted = 1
               /\ req[r].status # 201 => req[r].persisted = 0
          ELSE req[r].status = 0 /\ req[r].persisted = 0
    /\ Len(users) = Cardinality({r \in Reqs : req[r].status = 201})

\* one request was answered 201 and another was denied with 429
C5_Witness ==
    \E r, q \in Reqs :
        /\ req[r].status = CREATED
        /\ req[q].status = TOO_MANY_REQUESTS
        /\ Len(users) = 1

\* the validation rules, as the claim words them
ViolatesRule(body) ==
    \/ body.name.t = "undef"
    \/ body.name.t # "str"
    \/ Len(body.name.v) < 2
    \/ body.email.t = "undef"
    \/ body.email.t # "str"
    \/ ~IsEmailStr(body.email.v)

\* C6: a POST /users whose payload violates a validation rule (name missing,
\* not a string, or shorter than 2 characters untrimmed; email missing or not
\* a valid address) never invokes UsersService.createUser and stores
\* nothing, and once it reaches ValidationPipe it is answered 400.
C6_InvalidPayloadRejected ==
    \A r \in Reqs :
        (req[r].pc # "new" /\ ViolatesRule(req[r].body))
        => /\ req[r].pc = "done"
           /\ ~HasEvent(r, "createUser")
           /\ req[r].persisted = 0
           /\ \A i \in 1..Len(users) : users[i].email # req[r].body.email.v
                                       \/ users[i].name # req[r].body.name.v
           /\ HasEvent(r, "pipe") => req[r].status = 400

\* a name of one character with a valid email was answered 400 while the
\* table already held a record
C6_Witness ==
    \E r \in Reqs :
        /\ req[r].body.name = Str(<<"a">>)
        /\ IsEmail(req[r].body.email)
        /\ req[r].status = BAD_REQUEST
        /\ Len(users) = 1

\* C7: the 400 response lists the message of every validation rule the
\* payload violates, whatever the number of failing rules and fields; a
\* name of length 1 with a malformed email yields both
\* 'Name must be at least 2 characters long' and
\* 'Email must be a valid email address'.
C7_AllViolationsListed ==
    val.pc = "validated" =>
        LET name == val.body.name
            email == val.body.email
            Lists(m) == val.envelope.statusCode = 400 /\ ListsMessage(val.envelope, <<m>>)
        IN  /\ (name.t # "str" \/ Len(name.v) < 2)
                  => Lists("Name must be at least 2 characters long")
            /\ name.t # "str" => Lists("Name must be a string")
            /\ (name.t \in {"undef", "null"} \/ (name.t = "str" /\ name.v = <<>>))
                  => Lists("Name is required")
            /\ (email.t # "str" \/ ~IsEmailStr(email.v))
                  => Lists("Email must be a valid email address")
            /\ (email.t \in {"undef", "null"} \/ (email.t = "str" /\ email.v = <<>>))
                  => Lists("Email is required")
            /\ \A f \in {"id", "createdAt", "foo"} :
                  val.body[f].t # "undef"
                  => ListsMessage(val.envelope, <<"property ", f, " should not exist">>)

\* the payload {name: "a", email: "a@a"} was validated: two messages
C7_Witness ==
    /\ val.pc = "validated"
    /\ val.body = Body(Str(<<"a">>), Str(<<"a", "@", "a">>), Undef, Undef, Undef)
    /\ Len(val.envelope.message.items) = 2

MissingBoth(body) ==
    /\ body.name.t = "undef"
    /\ body.email.t = "undef"
    /\ body.id.t = "undef"
    /\ body.createdAt.t = "undef"
    /\ body.foo.t = "undef"

\* C8 as stated: a creation request missing both name and email yields
\* exactly two violation messages.
C8_ExactlyTwoMessages ==
    (val.pc = "validated" /\ MissingBoth(val.body))
    => Len(val.envelope.message.items) = 2

\* C8: a creation request missing both name and email yields the messages
\* of both fields, not of one: exactly five, one per violated rule (three
\* for name, two for email).
C8_FiveMessages ==
    (val.pc = "validated" /\ MissingBoth(val.body))
    => /\ val.envelope.statusCode = 400
       /\ Len(val.envelope.message.items) = 5
       /\ {val.envelope.message.items[i] : i \in 1..5}
             = { <<"Name must be at least 2 characters long">>,
                 <<"Name must be a string">>,
                 <<"Name is required">>,
                 <<"Email must be a valid email address">>,
                 <<"Email is required">> }

\* the empty payload was validated
C8_Witness ==
    /\ val.pc = "validated"
    /\ MissingBoth(val.body)
    /\ val.errors # <<>>

HasUnknownField(body) ==
    body.id.t # "undef" \/ body.createdAt.t # "undef" \/ body.foo.t # "undef"

\* C9: a creation request that carries a field other than name and email,
\* even with a valid name and email, is never accepted with the field
\* dropped: createUser is not invoked and no record is created, and once it
\* reaches ValidationPipe it is answered 400 naming each such field.
C9_UnknownFieldRejected ==
    \A r \in Reqs :
        (req[r].pc # "new" /\ HasUnknownField(req[r].body))
        => /\ req[r].pc = "done"
           /\ ~HasEvent(r, "createUser")
           /\ req[r].persisted = 0
           /\ req[r].status # 201
           /\ HasEvent(r, "pipe")
                 => /\ req[r].status = 400
                    /\ \A f \in {"id", "createdAt", "foo"} :
                          req[r].body[f].t # "undef"
                          => ListsMessage(req[r].envelope,
                                          <<"property ", f, " should not exist">>)

\* {name, email, foo} with a valid name and email was answered 400
C9_Witness ==
    \E r \in Reqs :
        /\ req[r].body.foo # Undef
        /\ ~ViolatesRule(req[r].body)
        /\ req[r].status = BAD_REQUEST
        /\ req[r].persisted = 0

\* C10: no POST /users request, whatever its payload, results in a stored
\* record whose id or createdAt was taken from the request body; both are
\* assigned by the server when the record is persisted (the id from the
\* server's sequence, createdAt from the server clock) and never again.
C10_ServerAssignedFields ==
    /\ [](\A i \in 1..Len(users) :
             /\ users[i].idFrom = "server"
             /\ users[i].createdAtFrom = "server")
    /\ [][ /\ Len(users') \in {Len(users), Len(users) + 1}
           /\ \A i \in 1..Len(users) : users'[i] = users[i]
           /\ Len(users') = Len(users) + 1
                 => /\ users'[Len(users')].id = nextId
                    /\ users'[Len(users')].createdAt = now
         ]_vars

\* a request carrying id and createdAt was answered while another request
\* stored a record
C10_Witness ==
    /\ Len(users) = 1
    /\ \E r \in Reqs :
          /\ req[r].body.id # Undef
          /\ req[r].body.createdAt # Undef
          /\ req[r].pc = "done"

\* ------------------------------------------------------ service claims
Created(r) == req[r].method = "POST" /\ req[r].persisted > 0

Listed(r) == req[r].method = "GET" /\ HasEvent(r, "return")

\* C11: the ids assigned by successful createUser calls are pairwise
\* distinct and strictly increasing in order of creation; no id is ever
\* assigned to two records, whatever successful and failed createUser calls
\* came before.
C11_IdsDistinctIncreasing ==
    /\ \A i, j \in 1..Len(users) : i < j => users[i].id < users[j].id
    /\ \A i \in 1..Len(users) : users[i].id < nextId
    /\ \A r, q \in Calls :
          (r # q /\ Created(r) /\ Created(q)) => req[r].result.id # req[q].result.id
    /\ \A r \in Calls :
          Created(r) => Cardinality({i \in 1..Len(users) : users[i].id = req[r].result.id}) = 1

\* a successful call, then a call refused with 409, then a successful call:
\* the two records carry the ids 1 and 2
C11_Witness ==
    /\ Created(1) /\ req[1].result.id = 1
    /\ req[2].pc = "done" /\ req[2].status = CONFLICT
    /\ Created(3) /\ req[3].result.id = 2
    /\ Len(users) = 2

\* C12: once a record is stored it stays stored, with the same id, name,
\* email and createdAt, after any later createUser and getUserList call: no
\* step of either operation changes or removes a stored record.
C12_StoredRecordsImmutable ==
    [][ /\ Len(users') >= Len(users)
        /\ \A i \in 1..Len(users) : users'[i] = users[i]
      ]_vars

\* a record was stored and listed; afterwards a second createUser succeeded
\* and the first record is still the first row
C12_Witness ==
    \E r, q, p \in Calls :
        /\ Created(r) /\ Created(q) /\ r # q
        /\ Listed(p) /\ req[p].list = <<req[r].result>>
        /\ Len(users) = 2
        /\ ToResponse(users[1]) = req[r].result

\* C13: two getUserList calls with no successful createUser between them
\* (the same number of createUser calls had succeeded when each read the
\* store) return equal sequences, and a getUserList step leaves the stored
\* records and the id counter as they were.
C13_ListIsRepeatable ==
    /\ [](\A r, q \in Calls :
            (Listed(r) /\ Listed(q) /\ req[r].created = req[q].created)
            => req[r].list = req[q].list)
    /\ [][\A r \in Calls :
            (req[r].method = "GET" /\ req[r].pc = "handler" /\ req'[r].pc = "done")
            => (users' = users /\ nextId' = nextId)
        ]_vars

\* a record was stored, then two getUserList calls each returned it
C13_Witness ==
    \E r, q \in Calls :
        /\ r # q
        /\ Listed(r) /\ Listed(q)
        /\ Len(users) = 1
        /\ req[r].list = <<ToResponse(users[1])>>
        /\ req[q].list = req[r].list

\* C14: after a successful createUser has returned record r, every later
\* getUserList call that does not hit a storage failure returns a sequence
\* with exactly one element per stored record, exactly one of which equals r
\* field for field.
C14_CreatedRecordIsListed ==
    [][\A q \in Calls :
          ( /\ req[q].method = "GET"
            /\ req[q].pc = "handler"
            /\ req'[q].pc = "done"
            /\ HasEventIn(req', q, "return") )
          => /\ Len(req'[q].list) = Len(users)
             /\ \A i \in 1..Len(users) : req'[q].list[i] = ToResponse(users[i])
             /\ \A r \in Calls :
                   Created(r)
                   => Cardinality({i \in 1..Len(req'[q].list) :
                                      req'[q].list[i] = req[r].result}) = 1
      ]_vars

\* two createUser calls succeeded and a later getUserList returned both
\* records
C14_Witness ==
    \E r, p, q \in Calls :
        /\ r # p
        /\ Created(r) /\ Created(p)
        /\ Listed(q) /\ req[q].created = 2
        /\ Len(req[q].list) = 2
        /\ \E i \in 1..2 : req[q].list[i] = req[r].result

\* C15: getUserList never fails because the store is empty: it returns the
\* empty sequence when find() resolves with no rows (no record has been
\* created) and also when find() resolves with null.
C15_EmptyStoreGivesEmptyList ==
    ( /\ listCall.pc = "returned"
      /\ (listCall.found.isNull \/ listCall.found.rows = <<>>) )
    => (~listCall.rejected /\ listCall.list = <<>>)

\* find() resolved with null and the call returned the empty sequence
C15_Witness ==
    /\ listCall.pc = "returned"
    /\ listCall.found.isNull
    /\ ~listCall.rejected
    /\ listCall.list = <<>>

ResponseFields == {"id", "name", "email", "createdAt"}

SameFields(dto, user) ==
    /\ DOMAIN dto = ResponseFields
    /\ \A f \in ResponseFields : dto[f] = user[f]

\* C16: the value returned by a successful createUser and every element
\* returned by getUserList has exactly the four fields id, name, email and
\* createdAt, each equal to that field of the stored record, although the
\* stored record carries further fields.
C16_FourFieldsOnly ==
    /\ \A r \in Calls :
          Created(r) => \E i \in 1..Len(users) : SameFields(req[r].result, users[i])
    /\ \A r \in Calls :
          Listed(r) => \A k \in 1..Len(req[r].list) :
                          /\ k <= Len(users)
                          /\ SameFields(req[r].list[k], users[k])

\* a record stored with more than the four fields was returned by
\* createUser and by getUserList
C16_Witness ==
    \E r, q \in Calls :
        /\ Created(r)
        /\ Listed(q)
        /\ req[q].list = <<req[r].result>>
        /\ Len(users) = 1
        /\ DOMAIN users[1] # ResponseFields

\* ------------------------------------------------------- filter claims
Sent(i) == caught # <<>> /\ caught[i].pc = "sent"

WithoutTimestamp(envelope) == [envelope EXCEPT !.timestamp = 0]

\* C17: for any two thrown values that are not HttpException instances
\* (Error subclasses, null, undefined, strings, plain objects) handled for
\* the same request, the filter sends the same status 500 and the same
\* envelope apart from the timestamp, with message 'Internal server error'
\* and error 'Internal Server Error'.
C17_UnclassifiedIndistinguishable ==
    \A i, j \in Runs :
        ( /\ Sent(i) /\ Sent(j)
          /\ ~caught[i].thrown.http
          /\ ~caught[j].thrown.http )
        => /\ caught[i].status = 500
           /\ caught[j].status = 500
           /\ WithoutTimestamp(caught[i].body) = WithoutTimestamp(caught[j].body)
           /\ caught[i].body.message = SingleMsg(<<"Internal server error">>)
           /\ caught[i].body.error = "Internal Server Error"

\* an Error with a message and a plain object carrying its own status and
\* message were handled for the same request at different times
C17_Witness ==
    /\ Sent(1) /\ Sent(2)
    /\ caught[1].thrown = Thrown("Error", <<"Database connection failed">>, 0)
    /\ caught[2].thrown = Thrown("object", <<"Object error">>, BAD_REQUEST)
    /\ caught[1].body.timestamp # caught[2].body.timestamp
    /\ caught[1].status = INTERNAL_SERVER_ERROR

EnvelopeFields == {"statusCode", "timestamp", "path", "method", "message", "error"}

\* C18: every response the filter produces is an envelope with all six
\* fields statusCode, timestamp, path, method, message and error; statusCode
\* equals the HTTP status sent (the exception's own status for an
\* HttpException, 500 otherwise), path equals the request URL and method
\* equals the request method.
C18_EnvelopeShape ==
    \A i \in Runs :
        Sent(i)
        => LET c == caught[i]
           IN  /\ DOMAIN c.body = EnvelopeFields
               /\ c.body.statusCode = c.status
               /\ c.status = IF c.thrown.http THEN c.thrown.status ELSE 500
               /\ c.body.path = c.url
               /\ c.body.method = c.method
               /\ c.body.message.kind \in {"string", "list"}
               /\ c.body.error # ""

\* a 409 HttpException and a non-HttpException were rendered for a GET on a
\* URL with a query string
C18_Witness ==
    /\ Sent(1) /\ Sent(2)
    /\ caught[1].thrown = UserConflictException(Email1)
    /\ caught[1].body.statusCode = CONFLICT
    /\ ~caught[2].thrown.http
    /\ caught[2].body.statusCode = INTERNAL_SERVER_ERROR
    /\ caught[1].body.path = "/users?limit=1"
    /\ caught[1].body.method = "GET"

\* C19: when an HttpException carries a list of messages, as its response
\* or as the message field of its response object, the envelope's message is
\* that full list in the same order; when it carries a single string, the
\* message is that string.
C19_MessageListPreserved ==
    \A i \in Runs :
        (Sent(i) /\ caught[i].thrown.http)
        => LET x == caught[i].thrown
               message == caught[i].body.message
           IN  /\ x.respItems # <<>> => message = ListMsg(x.respItems)
               /\ x.respMessage.kind = "list" => message = x.respMessage
               /\ x.respMessage.kind = "string" => message = x.respMessage
               /\ x.respIsString => message = SingleMsg(x.respString)

\* the detail a thrown value carries: the message of an Error or of a plain
\* object, the text of a thrown string
Mentions(message, detail) ==
    \/ message.kind = "string" /\ message.text = detail
    \/ message.kind = "list" /\ \E k \in 1..Len(message.items) : message.items[k] = detail

LogMentions(c, detail) ==
    \/ \E k \in 1..Len(c.logLabel) : <<c.logLabel[k]>> = detail
    \/ \E k \in 1..Len(c.logPayload) :
          /\ c.logPayload[k].key = "message"
          /\ Mentions(c.logPayload[k].value, detail)

\* C20: when the filter handles an unclassified failure (a thrown value that
\* is not an HttpException), the log entry it emits contains the detail of
\* the original failure, while the response contains none of it.
C20_DetailLoggedNotSent ==
    \A i \in Runs :
        (Sent(i) /\ ~caught[i].thrown.http /\ caught[i].thrown.message # <<>>)
        => /\ LogMentions(caught[i], caught[i].thrown.message)
           /\ ~Mentions(caught[i].body.message, caught[i].thrown.message)

\* ------------------------------------------------------- pipeline claims
ThrottledEnvelopeMessage == SingleMsg(<<"ThrottlerException: Too Many Requests">>)

ServiceEvents == {"pipe", "createUser", "findOneBy", "create", "save", "set"}

\* C21: a request denied by the rate limiter (received when its client has
\* used up the limit of the window) is answered 429 through the error
\* envelope and never reaches ValidationPipe or UsersService: no validation
\* rule is evaluated, no storage operation is invoked, and the stored
\* records are unchanged.
C21_DeniedRequestStopsAtGuard ==
    /\ [](\A r \in Reqs :
            req[r].status = 429
            => /\ req[r].pc = "done"
               /\ req[r].persisted = 0
               /\ \A e \in ServiceEvents : ~HasEvent(r, e))
    /\ [][\A r \in Reqs :
            ( /\ req[r].pc = "new"
              /\ req'[r].pc # "new"
              /\ hits[req'[r].client] >= PostLimit )
            => /\ req'[r].status = 429
               /\ req'[r].envelope.statusCode = 429
               /\ req'[r].envelope.message = ThrottledEnvelopeMessage
               /\ req'[r].envelope.path = "/users"
               /\ req'[r].envelope.method = "POST"
               /\ HasEventIn(req', r, "filter.send")
               /\ users' = users
               /\ nextId' = nextId
        ]_vars

\* after a request that stored a record, a request with an invalid payload
\* was denied by the guard: answered 429, not 400, the record still the
\* only one
C21_Witness ==
    \E r, q \in Reqs :
        /\ req[r].status = CREATED
        /\ req[q].status = TOO_MANY_REQUESTS
        /\ ViolatesRule(req[q].body)
        /\ HasEvent(q, "guard")
        /\ Len(users) = 1

\* the storage key of the request at the front of the pipeline
CurKey == ThrottlerKey(front.cur.client, front.cur.route)

\* C22: for each client, once 5 POST /users requests have been admitted, a
\* 6th POST /users issued within one minute of the first (while those hits
\* are still in the storage) is denied with 429, whatever happened to the
\* first five after the guard.
C22_SixthPostDenied ==
    [][ ( /\ front.cur.pc = "guard"
          /\ front.cur.route = RoutePostUsers
          /\ front.admitted[CurKey] = 5
          /\ front'.cur.pc # "guard" )
        => /\ front'.cur.pc = "denied"
           /\ front'.cur.status = 429
           /\ front'.cur.envelope.statusCode = 429
           /\ front'.admitted[CurKey] = 5
      ]_vars

\* six POST /users requests of one client in one window: five admitted, the
\* sixth denied
C22_Witness ==
    /\ front # <<>>
    /\ front.issued = 6
    /\ front.cur.pc = "denied"
    /\ front.cur.client = "c1"
    /\ front.cur.route = RoutePostUsers
    /\ front.admitted[CurKey] = 5
    /\ Len(front.hits[CurKey]) = 6
    /\ front.cur.status = TOO_MANY_REQUESTS

\* C23: admission is counted per route and per client: a request is admitted
\* exactly when the hits of its own client on its own route in the current
\* window are below that route's limit (20 for GET /users, 5 for POST
\* /users, 10 for a route without an override), and the guard changes the
\* count of no other client or route.
C23_IndependentCounters ==
    [][ (front.cur.pc = "guard" /\ front'.cur.pc # "guard")
        => LET route == front.cur.route
               limit == IF route = RouteGetUsers THEN 20
                        ELSE IF route = RoutePostUsers THEN 5 ELSE 10
           IN  /\ front'.cur.pc \in {"admitted", "denied"}
               /\ front'.cur.pc = "admitted" <=> Len(front.hits[CurKey]) < limit
               /\ \A k \in DOMAIN front.hits :
                     k # CurKey => front'.hits[k] = front.hits[k]
      ]_vars

\* client c1 used up its five POST /users requests and then had its
\* twentieth GET /users of the window admitted
C23_Witness ==
    /\ front # <<>>
    /\ front.admitted[ThrottlerKey("c1", RoutePostUsers)] = 5
    /\ front.cur.pc = "admitted"
    /\ front.cur.client = "c1"
    /\ front.cur.route = RouteGetUsers
    /\ Len(front.hits[CurKey]) = 20

\* C24: every inbound request, whatever its route, produces exactly one
\* request log entry holding timestamp, method and URL, and the entry is
\* emitted before the rate limiter is evaluated, so a request that is then
\* denied with 429 (or admitted and rejected later) has been logged.
C24_LoggedOnceBeforeGuard ==
    /\ [](front # <<>> =>
            LET c == front.cur
            IN  /\ c.pc = "arrived" => c.log = <<>>
                /\ c.pc \in {"guard", "admitted", "denied"}
                   => /\ Len(c.log) = 1
                      /\ \E t \in 0..now :
                            c.log[1] = <<"[", Iso(t), "] ", c.route.method, " ", c.route.url>>)
    /\ [][ (front.cur.pc # front'.cur.pc /\ front'.cur.pc \in {"admitted", "denied"})
            => /\ front.cur.pc = "guard"
               /\ Len(front.cur.log) = 1
               /\ front'.cur.log = front.cur.log
        ]_vars

\* a POST /users request was logged and then denied with 429
C24_Witness ==
    /\ front # <<>>
    /\ front.cur.pc = "denied"
    /\ front.cur.status = TOO_MANY_REQUESTS
    /\ front.cur.log = <<RequestLogLine(0, Str("POST"), Str("/users"))>>
    /\ front.cur.nextCalls = 1

\* the string with its letters in lower case
LowerCase(str) == [i \in 1..Len(str) |-> IF str[i] = "A" THEN "a" ELSE str[i]]

StoredIgnoringCase(table, email) ==
    \E i \in 1..Len(table) : LowerCase(table[i].email) = LowerCase(email)

\* C25: createUser rejects with UserConflictException (409) when a stored
\* record's email differs from the requested email only in letter case, and
\* adds no record: the uniqueness check is case-insensitive.
C25_CaseInsensitiveConflict ==
    [][\A r \in Calls :
          ( /\ req[r].method = "POST"
            /\ req[r].pc = "handler"
            /\ req'[r].pc # "handler"
            /\ StoredIgnoringCase(users, req[r].body.email.v)
            /\ ~HasEventIn(req', r, "findOneBy.rejects") )
          => /\ req'[r].pc = "done"
             /\ req'[r].status = 409
             /\ users' = users
      ]_vars

\* number of times event e was recorded for call r
CountEventIn(rq, r, e) == Len(SelectSeq(rq[r].trace, LAMBDA x : x = e))

\* call r was rejected with the error the storage operation raised: a value
\* that is not an HttpException, named QueryFailedError, with that detail
RejectedWith(rq, r, detail) ==
    /\ rq[r].pc = "done"
    /\ rq[r].thrown.http = FALSE
    /\ rq[r].thrown.name = "QueryFailedError"
    /\ rq[r].thrown.message = <<detail>>
    /\ rq[r].persisted = 0
    /\ rq[r].list = <<>>

\* C26: when a storage operation fails (findOneBy or save in createUser,
\* find in getUserList) the call rejects with that same error and is not
\* retried: after every step of a call each storage operation has been
\* invoked at most once for it, save is never invoked after findOneBy
\* failed, and the failing step adds no record.
C26_StorageFailurePropagates ==
    [][\A r \in Calls :
          req'[r] # req[r] =>
             /\ CountEventIn(req', r, "findOneBy") <= 1
             /\ CountEventIn(req', r, "save") <= 1
             /\ CountEventIn(req', r, "find") <= 1
             /\ HasEventIn(req', r, "findOneBy.rejects")
                => /\ RejectedWith(req', r, "findOneBy failed")
                   /\ ~HasEventIn(req', r, "save")
                   /\ users' = users /\ nextId' = nextId
             /\ HasEventIn(req', r, "save.rejects")
                => /\ RejectedWith(req', r, "save failed")
                   /\ users' = users /\ nextId' = nextId
             /\ HasEventIn(req', r, "save.rejects.unique")
                => /\ RejectedWith(req', r, "UNIQUE constraint failed: users.email")
                   /\ users' = users /\ nextId' = nextId
             /\ HasEventIn(req', r, "find.rejects")
                => /\ RejectedWith(req', r, "find failed")
                   /\ users' = users /\ nextId' = nextId
      ]_vars

\* findOneBy failed for one call, save for another and find for a third:
\* each was rejected and the table is still empty
C26_Witness ==
    \E r, q, g \in Calls :
        /\ HasEvent(r, "findOneBy.rejects") /\ req[r].pc = "done"
        /\ HasEvent(q, "save.rejects") /\ req[q].pc = "done"
        /\ HasEvent(g, "find.rejects") /\ req[g].pc = "done"
        /\ users = <<>>

\* the filter was invoked for run i and has left catch
Caught(i) == caught[i].pc \in {"sent", "threw"}

\* C27: every invocation of the filter, for HttpExceptions and for any other
\* thrown value alike, calls logger.error exactly once, with the label
\* '{method} {url}' and the JSON serialization of the envelope it sends, and
\* does so before the response is sent; when the logger throws, its error
\* leaves catch and no response is sent.
C27_LoggedOnceBeforeSend ==
    \A i \in Runs :
        Caught(i) =>
            LET c == caught[i]
                envelope == ErrorResponse(c.thrown, c.url, c.method, c.body.timestamp)
            IN  /\ Cardinality({k \in 1..Len(c.events) : c.events[k] = "log"}) = 1
                /\ c.events[1] = "log"
                /\ c.logLabel = <<c.method, " ", c.url>>
                /\ c.pc = "sent" =>
                      /\ c.events = <<"log", "send">>
                      /\ c.body = envelope
                      /\ c.logPayload = JsonStringify(c.body)
                      /\ c.status = c.body.statusCode
                      /\ c.propagated = ""
                /\ c.pc = "threw" =>
                      /\ c.events = <<"log">>
                      /\ c.body = NoEnvelope
                      /\ c.status = 0
                      /\ c.propagated = "Logger error"

\* an HttpException was logged and answered, and for a value that is not an
\* HttpException the logger threw and nothing was sent
C27_Witness ==
    \E i, j \in Runs :
        /\ caught[i].pc = "sent" /\ caught[i].thrown.http
        /\ caught[i].events = <<"log", "send">>
        /\ caught[j].pc = "threw" /\ ~caught[j].thrown.http
        /\ caught[j].body = NoEnvelope

\* what a template literal prints for a value, written out
Printed(x) ==
    IF x = Undef THEN "undefined" ELSE IF x = Null THEN "null" ELSE x.v

\* C28: for any request, including one whose method or URL is undefined,
\* null or the empty string, LoggingMiddleware.use calls the logger exactly
\* once with `[timestamp] method url` and then calls next() exactly once with
\* no arguments; when the logger throws, next() is never called and the
\* logger's error leaves use().
C28_LogsOnceThenNext ==
    mw.pc # "called" =>
        /\ Len(mw.log) = 1
        /\ mw.log[1] = <<"[", Iso(mw.at), "] ", Printed(mw.method), " ", Printed(mw.originalUrl)>>
        /\ mw.events[1] = "log"
        /\ mw.propagated # "Logger error" =>
              /\ mw.events = <<"log", "next">>
              /\ mw.nextArgs = << <<>> >>
        /\ mw.propagated = "Logger error" =>
              /\ mw.pc = "threw"
              /\ mw.events = <<"log">>
              /\ mw.nextArgs = <<>>
        /\ mw.pc = "returned" => mw.propagated = ""

\* a request without a method and with an empty URL was logged as
\* `[timestamp] undefined ` and handed on by one call of next()
C28_Witness ==
    /\ mw.pc = "returned"
    /\ mw.method = Undef /\ mw.originalUrl = Str("")
    /\ mw.log = << <<"[", Iso(mw.at), "] ", "undefined", " ", "">> >>
    /\ mw.nextArgs = << <<>> >>

\* the falsy values, written out
Falsy == {JsUndefined, JsNull, JsNumber(0), JsString(""), JsBoolean(FALSE)}

\* the body has a truthy property of that name
HasTruthy(body, field) ==
    /\ body.t = "object"
    /\ field \in DOMAIN body
    /\ body[field] \notin Falsy

\* C29: getExternalUsers rejects with exactly Error('Failed to fetch
\* external users') for every failure - a rejected HTTP call of any shape,
\* or a body that is null, undefined or not an array and has no truthy
\* `data` or `users` property - and never exposes the original error;
\* otherwise it returns response.data.data when that is truthy, else
\* response.data.users when that is truthy, else response.data, an array.
C29_ExternalUsersOutcome ==
    ext.pc = "settled" =>
        LET body == ext.outcome.data
            failure == \/ ext.outcome.kind # "resolved"
                       \/ /\ body.t # "array"
                          /\ ~HasTruthy(body, "data")
                          /\ ~HasTruthy(body, "users")
        IN  /\ ext.gets = 1
            /\ failure =>
                  /\ ~ext.result.ok
                  /\ ext.result.error.name = "Error"
                  /\ ext.result.error.message = "Failed to fetch external users"
                  /\ ext.result.error.code = ""
                  /\ ext.result.error.status = 0
            /\ ~failure =>
                  /\ ext.result.ok
                  /\ ext.result.value = IF HasTruthy(body, "data") THEN body.data
                                        ELSE IF HasTruthy(body, "users") THEN body.users
                                        ELSE body

\* the call timed out and getExternalUsers rejected with its own error,
\* which carries neither the code nor the message of the timeout
C29_Witness ==
    /\ ext.pc = "settled"
    /\ ext.outcome.kind = "rejected"
    /\ ext.outcome.error.code = "ECONNABORTED"
    /\ ~ext.result.ok
    /\ ext.result.error.message = "Failed to fetch external users"

\* C30: in the in-memory service the scan for the e-mail, the allocation of
\* the id and the insertion into the Map happen in one step, so whatever
\* the interleaving of concurrent calls the Map never holds two records
\* with the same e-mail, every key of the Map is the id of the record stored
\* under it, and nextId is greater than every stored id.
C30_MapConsistent ==
    impl = "mem" =>
        /\ \A i, j \in 1..Len(users) :
              i # j => (users[i].email # users[j].email /\ users[i].key # users[j].key)
        /\ \A i \in 1..Len(users) :
              /\ users[i].key = users[i].id
              /\ users[i].id < nextId

\* two concurrent createUser calls stored two records and a third call,
\* carrying the e-mail of one of them, was refused
C30_Witness ==
    /\ impl = "mem"
    /\ Len(users) = 2
    /\ users[1].key = 1 /\ users[2].key = 2
    /\ \E r \in Calls :
          /\ req[r].pc = "done" /\ req[r].status = CONFLICT
          /\ req[r].body.email.v = users[1].email
====
